---------------------------- MODULE Spec2Model ----------------------------
(***************************************************************************)
(* A model of aioinflux/serialization.py: the line-protocol encoder        *)
(* (escape, parse_data, make_line and its helpers, parse_df) and the       *)
(* response decoder (make_df).                                             *)
(*                                                                         *)
(* Texts are sequences of characters (one-character strings; the token     *)
(* "U+00E9" stands for the non-ASCII character e-acute).  Byte strings are *)
(* sequences of numbers 0..255.  A Python value is a record whose field t  *)
(* names its type.  A call that raises is a result with ok = FALSE.        *)
(***************************************************************************)
EXTENDS Integers, Sequences, FiniteSets, TLC

VARIABLES
    pd,     \* whether pandas/numpy could be imported (aioinflux/__init__.py)
    tz,     \* the process's local time zone: time.timezone and the DST rule
    pc,     \* "idle": no call in progress; "done": a call has returned
    call,   \* the call made last: the function and its arguments
    ret     \* what that call returned or raised

vars == <<pd, tz, pc, call, ret>>

(***************************************************************************)
(* Bounds of the model.                                                    *)
(***************************************************************************)
MaxLen == 2        \* longest text handed to escape
MaxTags == 2       \* most tags of a point
MaxFields == 2     \* most fields of a point
MaxRows == 2       \* most rows of a table
MaxItems == 2      \* most elements of a list handed to parse_data
MaxChunks == 2     \* most series of a response

(***************************************************************************)
(* Python values.                                                          *)
(***************************************************************************)
None == [t |-> "NoneType"]
VStr(s) == [t |-> "str", s |-> s]
VInt(i) == [t |-> "int", i |-> i]
VBool(b) == [t |-> "bool", b |-> b]
\* a float with value h/2, or the float nan
VFloat(h) == [t |-> "float", h |-> h]
NaN == [t |-> "float", nan |-> TRUE]

IsNaN(v) == v.t = "float" /\ "nan" \in DOMAIN v

Ok(v) == [ok |-> TRUE, val |-> v]
Raise(e) == [ok |-> FALSE, err |-> e]

(***************************************************************************)
(* Texts.                                                                  *)
(***************************************************************************)
RECURSIVE Flatten(_)
Flatten(ss) == IF ss = <<>> THEN <<>> ELSE Head(ss) \o Flatten(Tail(ss))

\* sep.join(parts)
RECURSIVE Join(_, _)
Join(sep, parts) ==
    IF parts = <<>> THEN <<>>
    ELSE IF Len(parts) = 1 THEN parts[1]
    ELSE parts[1] \o sep \o Join(sep, Tail(parts))

Digit(d) == <<CASE d = 0 -> "0" [] d = 1 -> "1" [] d = 2 -> "2" [] d = 3 -> "3"
                [] d = 4 -> "4" [] d = 5 -> "5" [] d = 6 -> "6" [] d = 7 -> "7"
                [] d = 8 -> "8" [] d = 9 -> "9">>

RECURSIVE NatStr(_)
NatStr(n) == IF n < 10 THEN Digit(n) ELSE NatStr(n \div 10) \o Digit(n % 10)

\* str(i) of an integer
IntStr(i) == IF i < 0 THEN <<"-">> \o NatStr(-i) ELSE NatStr(i)

\* str(x) of the float h/2
FloatStr(h) ==
    LET a == IF h < 0 THEN -h ELSE h
    IN  (IF h < 0 THEN <<"-">> ELSE <<>>) \o NatStr(a \div 2) \o <<".">>
            \o (IF a % 2 = 0 THEN <<"0">> ELSE <<"5">>)

\* str(v), which is also what '{}'.format(v) gives
PyStr(v) ==
    CASE v.t = "str" -> v.s
      [] v.t = "NoneType" -> <<"N", "o", "n", "e">>
      [] v.t = "bool" -> IF v.b THEN <<"T", "r", "u", "e">> ELSE <<"F", "a", "l", "s", "e">>
      [] v.t = "int" -> IntStr(v.i)
      [] v.t = "float" -> IF IsNaN(v) THEN <<"n", "a", "n">> ELSE FloatStr(v.h)

(***************************************************************************)
(* The translation tables.                                                 *)
(***************************************************************************)
key_escape ==
    ("\\" :> <<"\\", "\\">>) @@ ("," :> <<"\\", ",">>) @@ (" " :> <<"\\", " ">>)
        @@ ("=" :> <<"\\", "=">>) @@ ("\n" :> <<>>)

tag_escape ==
    ("\\" :> <<"\\", "\\">>) @@ ("," :> <<"\\", ",">>) @@ (" " :> <<"\\", " ">>)
        @@ ("=" :> <<"\\", "=">>) @@ ("\n" :> <<>>)

str_escape ==
    ("\\" :> <<"\\", "\\">>) @@ ("\"" :> <<"\\", "\"">>) @@ ("\n" :> <<>>)

measurement_escape ==
    ("\\" :> <<"\\", "\\">>) @@ ("," :> <<"\\", ",">>) @@ (" " :> <<"\\", " ">>)
        @@ ("\n" :> <<>>)

\* the table a profile name stands for
Pattern(name) ==
    CASE name = "key_escape" -> key_escape
      [] name = "tag_escape" -> tag_escape
      [] name = "str_escape" -> str_escape
      [] name = "measurement_escape" -> measurement_escape

\* str.translate(table)
translate(s, table) ==
    Flatten([i \in 1..Len(s) |-> IF s[i] \in DOMAIN table THEN table[s[i]] ELSE <<s[i]>>])

escape_wrong_table(string, escape_pattern) ==
    IF string.t = "str"
    THEN translate(string.s, measurement_escape)
    ELSE translate(PyStr(string), tag_escape)

escape(string, escape_pattern) ==
    IF string.t = "str"
    THEN translate(string.s, escape_pattern)
    ELSE \* AttributeError: warn, then convert with str() and the tag table
         translate(PyStr(string), tag_escape)

(***************************************************************************)
(* Points.  A mapping is a sequence of items [k, v] with distinct keys, in *)
(* insertion order.  A point is a mapping with up to four keys; has names  *)
(* the keys it carries.                                                    *)
(***************************************************************************)
Item(k, v) == [k |-> k, v |-> v]

Keys(m) == {m[i].k : i \in 1..Len(m)}

\* m[k] for a key of m
Get(m, k) == m[CHOOSE i \in 1..Len(m) : m[i].k = k].v

\* {**a, **b}: a's items with b's values where the key is shared, then b's new items
RECURSIVE NewItems(_, _)
NewItems(a, b) ==
    IF b = <<>> THEN <<>>
    ELSE (IF Head(b).k \in Keys(a) THEN <<>> ELSE <<Head(b)>>) \o NewItems(a, Tail(b))

merge(a, b) ==
    [i \in 1..Len(a) |-> IF a[i].k \in Keys(b) THEN Item(a[i].k, Get(b, a[i].k)) ELSE a[i]]
        \o NewItems(a, b)

\* a datetime: the wall-clock reading sec.micro counted from 1970-01-01T00:00:00,
\* and for an aware one its offset east of UTC in seconds
Naive(sec, micro) == [t |-> "datetime", sec |-> sec, micro |-> micro, aware |-> FALSE, off |-> 0]
Aware(sec, micro, off) == [t |-> "datetime", sec |-> sec, micro |-> micro, aware |-> TRUE, off |-> off]
\* an ISO-8601 text spelling the datetime dt
IsoText(dt) == [t |-> "str", iso |-> dt]

IsIso(v) == v.t = "str" /\ "iso" \in DOMAIN v

\* an integer count of nanoseconds s * 10^9 + ns, 0 <= ns < 10^9
Nanos(s, ns) == [t |-> "int", s |-> s, ns |-> ns]

RECURSIVE ZeroPad(_, _)
ZeroPad(digits, width) ==
    IF Len(digits) >= width THEN digits ELSE ZeroPad(<<"0">> \o digits, width)

\* str(n) of a count of nanoseconds
NanosStr(n) ==
    IF n.s = 0 THEN NatStr(n.ns)
    ELSE IF n.s > 0 THEN NatStr(n.s) \o ZeroPad(NatStr(n.ns), 9)
    ELSE IF n.ns = 0 THEN <<"-">> \o NatStr(-n.s) \o ZeroPad(<<>>, 9)
    ELSE IF n.s = -1 THEN <<"-">> \o NatStr(1000000000 - n.ns)
    ELSE <<"-">> \o NatStr(-n.s - 1) \o ZeroPad(NatStr(1000000000 - n.ns), 9)

(***************************************************************************)
(* make_line and its helpers.                                              *)
(***************************************************************************)
_parse_measurement(point, measurement) ==
    IF "measurement" \in point.has
    THEN Ok(escape(point.measurement, measurement_escape))
    ELSE \* KeyError
         IF measurement.t = "NoneType" THEN Raise("ValueError")
         ELSE Ok(escape(measurement, measurement_escape))

RECURSIVE TagTokens(_)
TagTokens(items) ==
    IF items = <<>> THEN <<>>
    ELSE LET k == escape(VStr(Head(items).k), key_escape)
             v == escape(Head(items).v, tag_escape)
         IN  (IF v = <<>> THEN <<>> ELSE <<k \o <<"=">> \o v>>) \o TagTokens(Tail(items))

_parse_tags(point, extra_tags) ==
    IF "tags" \in point.has
    THEN Join(<<",">>, TagTokens(merge(point.tags, extra_tags)))
    ELSE \* KeyError, passed over: nothing was appended
         <<>>

\* the seconds west of UTC that the zone applies to a local wall-clock reading
UtcOffsetWest(zone, sec) == IF zone.dst /\ sec >= zone.dstFrom THEN zone.altzone ELSE zone.timezone

\* int(x) of the float s + micro / 10^6: truncation towards zero
IntTrunc(s, micro) == IF s < 0 /\ micro > 0 THEN s + 1 ELSE s

\* int(dt.timestamp() - shift) of a datetime
TimestampInt(dt, zone, shift) ==
    IF dt.aware THEN IntTrunc(dt.sec - dt.off - shift, dt.micro)
    ELSE IntTrunc(dt.sec + UtcOffsetWest(zone, dt.sec) - shift, dt.micro)

\* pd.Timestamp(dt).value
TimestampValue(dt) ==
    IF dt.aware THEN Nanos(dt.sec - dt.off, dt.micro * 1000)
    ELSE Nanos(dt.sec, dt.micro * 1000)

_parse_timestamp(point, pandas, zone) ==
    IF "time" \notin point.has THEN Ok(VStr(<<>>))
    ELSE LET dt == point.time
         IN  IF pandas
             THEN IF dt.t = "datetime" THEN Ok(TimestampValue(dt))
                  ELSE IF IsIso(dt) THEN Ok(TimestampValue(dt.iso))
                  ELSE Raise("ValueError")
             ELSE IF dt.t = "str" /\ ~IsIso(dt) THEN Raise("ValueError")
                  ELSE LET d == IF dt.t = "str" THEN dt.iso ELSE dt
                       IN  IF ~d.aware
                           THEN Ok(Nanos(TimestampInt(d, zone, zone.timezone), d.micro * 1000))
                           ELSE Ok(Nanos(TimestampInt(d, zone, 0), d.micro * 1000))

field_token_int_first(k, v) ==
    IF v.t \in {"bool", "int"} THEN <<k \o <<"=">> \o PyStr(v) \o <<"i">> >>
    ELSE IF v.t = "str" THEN <<k \o <<"=", "\"">> \o translate(v.s, str_escape) \o <<"\"">> >>
    ELSE IF v.t = "NoneType" THEN <<>>
    ELSE <<k \o <<"=">> \o PyStr(v)>>

\* what one field appends to the output of _parse_fields (k already escaped)
field_token(k, v) ==
    IF v.t = "bool" THEN <<k \o <<"=">> \o PyStr(v)>>
    ELSE IF v.t = "int" THEN <<k \o <<"=">> \o PyStr(v) \o <<"i">> >>
    ELSE IF v.t = "str" THEN <<k \o <<"=", "\"">> \o translate(v.s, str_escape) \o <<"\"">> >>
    ELSE IF v.t = "NoneType" THEN <<>>
    ELSE <<k \o <<"=">> \o PyStr(v)>>

RECURSIVE FieldTokens(_)
FieldTokens(items) ==
    IF items = <<>> THEN <<>>
    ELSE field_token(escape(VStr(Head(items).k), key_escape), Head(items).v)
            \o FieldTokens(Tail(items))

_parse_fields(point) ==
    IF "fields" \in point.has
    THEN Ok(Join(<<",">>, FieldTokens(point.fields)))
    ELSE Raise("KeyError")

\* '{}'.format(x) of what _parse_timestamp returned
TimestampStr(x) == IF x.t = "str" THEN x.s ELSE NanosStr(x)

make_line(point, measurement, extra_tags, pandas, zone) ==
    LET tags == _parse_tags(point, extra_tags)
        m == _parse_measurement(point, measurement)
        f == _parse_fields(point)
        ts == _parse_timestamp(point, pandas, zone)
    IN  IF ~m.ok THEN m
        ELSE IF ~f.ok THEN f
        ELSE IF ~ts.ok THEN ts
        ELSE IF tags # <<>>
             THEN Ok(m.val \o <<",">> \o tags \o <<" ">> \o f.val \o <<" ">> \o TimestampStr(ts.val))
             ELSE Ok(m.val \o <<" ">> \o f.val \o <<" ">> \o TimestampStr(ts.val))

(***************************************************************************)
(* Bytes: str.encode('utf-8').                                             *)
(***************************************************************************)
\* the printable ASCII characters, in code order from 32 (space) on
Printable ==
    << " ", "!", "\"", "#", "$", "%", "&", "'", "(", ")", "*", "+",
       ",", "-", ".", "/", "0", "1", "2", "3", "4", "5", "6", "7",
       "8", "9", ":", ";", "<", "=", ">", "?", "@", "A", "B", "C",
       "D", "E", "F", "G", "H", "I", "J", "K", "L", "M", "N", "O",
       "P", "Q", "R", "S", "T", "U", "V", "W", "X", "Y", "Z", "[",
       "\\", "]", "^", "_", "U+0060", "a", "b", "c", "d", "e", "f", "g",
       "h", "i", "j", "k", "l", "m", "n", "o", "p", "q", "r", "s",
       "t", "u", "v", "w", "x", "y", "z", "{", "|", "}", "~" >>

\* the UTF-8 bytes of one character
Utf8Char(c) ==
    IF c = "\n" THEN <<10>>
    ELSE IF c = "U+00E9" THEN <<195, 169>>
    ELSE <<31 + (CHOOSE i \in 1..Len(Printable) : Printable[i] = c)>>

Utf8(s) == Flatten([i \in 1..Len(s) |-> Utf8Char(s[i])])

(***************************************************************************)
(* parse_df.  A DataFrame is an index (a DatetimeIndex or not), columns    *)
(* with a name and a dtype each, and rows: an index value and one cell per *)
(* column.                                                                 *)
(***************************************************************************)
Column(name, dtype) == [name |-> name, dtype |-> dtype]
Row(index, cells) == [index |-> index, cells |-> cells]

IsNull(v) == v.t = "NoneType" \/ IsNaN(v)

\* df.isnull().any(axis=1) for one row
RowIsNull(row) == \E i \in 1..Len(row.cells) : IsNull(row.cells[i])

\* the text a string literal of Python source stands for.  After key_escape a
\* backslash is doubled or stands before ',', ' ' or '=': the doubled one
\* is read as one backslash, the other pairs are unknown escapes and are kept.
RECURSIVE PyLiteral(_)
PyLiteral(s) ==
    IF s = <<>> THEN <<>>
    ELSE IF Head(s) = "\\" /\ Len(s) >= 2
         THEN (IF s[2] \in {"\\", "\"", "'"} THEN <<s[2]>> ELSE <<s[1], s[2]>>)
                 \o PyLiteral(SubSeq(s, 3, Len(s)))
    ELSE <<Head(s)>> \o PyLiteral(Tail(s))

StartsWith(s, i, p) == i + Len(p) - 1 <= Len(s) /\ SubSeq(s, i, i + Len(p) - 1) = p

\* re.sub('p1|p2|...', '', s) for literal alternatives
RECURSIVE SubLiterals(_, _, _)
SubLiterals(pats, s, i) ==
    IF i > Len(s) THEN <<>>
    ELSE LET hit == {p \in pats : p # <<>> /\ StartsWith(s, i, p)}
         IN  IF hit # {} THEN SubLiterals(pats, s, i + Len(CHOOSE p \in hit : TRUE))
             ELSE <<s[i]>> \o SubLiterals(pats, s, i + 1)

\* re.sub(',{2,}', ',', s)
RECURSIVE SubCommaRuns(_)
SubCommaRuns(s) ==
    IF Len(s) < 2 THEN s
    ELSE IF s[1] = "," /\ s[2] = "," THEN SubCommaRuns(Tail(s))
    ELSE <<Head(s)>> \o SubCommaRuns(Tail(s))

\* re.sub(', ,|, | ,', ' ', s)
RECURSIVE SubOrphans(_, _)
SubOrphans(s, i) ==
    IF i > Len(s) THEN <<>>
    ELSE IF StartsWith(s, i, <<",", " ", ",">>) THEN <<" ">> \o SubOrphans(s, i + 3)
    ELSE IF StartsWith(s, i, <<",", " ">>) THEN <<" ">> \o SubOrphans(s, i + 2)
    ELSE IF StartsWith(s, i, <<" ", ",">>) THEN <<" ">> \o SubOrphans(s, i + 2)
    ELSE <<s[i]>> \o SubOrphans(s, i + 1)

\* the patterns of the first replacement
make_replacements(df) ==
    {df.columns[i].name \o (IF df.columns[i].dtype = "object"
                            THEN <<"=", "\"", "n", "a", "n", "\"">>
                            ELSE <<"=", "n", "a", "n">>) : i \in 1..Len(df.columns)}

\* reduce(lambda a, b: re.sub(*b, a), rep, line)
Replaced(df, line) == SubOrphans(SubCommaRuns(SubLiterals(make_replacements(df), line, 1)), 1)

\* tag_columns with the names of the categorical columns added
TagColumns(df, tag_columns) ==
    tag_columns \cup {df.columns[i].name : i \in {j \in 1..Len(df.columns) :
                                                    df.columns[j].dtype = "category"}}

\* how column i is rendered: as a tag, or as a field of one of three shapes
ColumnRole(df, i, tag_columns) ==
    LET k == translate(df.columns[i].name, key_escape)
    IN  IF k \in TagColumns(df, tag_columns) THEN "tag"
        ELSE IF df.columns[i].dtype = "int64" THEN "integer"
        ELSE IF df.columns[i].dtype \in {"float64", "bool"} THEN "bare"
        ELSE "quoted"

\* column i's token in the line of a row
ColumnToken(df, i, tag_columns, row) ==
    LET k == PyLiteral(translate(df.columns[i].name, key_escape))
        v == PyStr(row.cells[i])
        role == ColumnRole(df, i, tag_columns)
    IN  CASE role = "tag" -> k \o <<"=">> \o v
          [] role = "integer" -> k \o <<"=">> \o v \o <<"i">>
          [] role = "bare" -> k \o <<"=">> \o v
          [] role = "quoted" -> k \o <<"=", "\"">> \o v \o <<"\"">>

ExtraTagToken(item) ==
    PyLiteral(item.k) \o <<"=">> \o PyLiteral(escape(item.v, key_escape))

\* f(p): the line of one row
RowLine(df, measurement, tag_columns, extra_tags, row) ==
    LET cols == 1..Len(df.columns)
        tagcols == SelectSeq([i \in cols |-> i],
                             LAMBDA i : ColumnRole(df, i, tag_columns) = "tag")
        fieldcols == SelectSeq([i \in cols |-> i],
                               LAMBDA i : ColumnRole(df, i, tag_columns) # "tag")
        tags == [j \in 1..Len(extra_tags) |-> ExtraTagToken(extra_tags[j])]
                  \o [j \in 1..Len(tagcols) |-> ColumnToken(df, tagcols[j], tag_columns, row)]
        fields == [j \in 1..Len(fieldcols) |-> ColumnToken(df, fieldcols[j], tag_columns, row)]
    IN  PyLiteral(PyStr(measurement)) \o (IF tags # <<>> THEN <<",">> ELSE <<>>)
            \o Join(<<",">>, tags) \o <<" ">> \o Join(<<",">>, fields) \o <<" ">>
            \o NanosStr(row.index)

IsNullRow(row) == RowIsNull(row)
IsCleanRow(row) == ~RowIsNull(row)

parse_df(df, measurement, tag_columns, extra_tags) ==
    IF ~df.datetime_index THEN Raise("ValueError")
    ELSE LET line(row) == RowLine(df, measurement, tag_columns, extra_tags, row)
             clean == SelectSeq(df.rows, IsCleanRow)
             dirty == SelectSeq(df.rows, IsNullRow)
             lp == [i \in 1..Len(clean) |-> line(clean[i])]
             lp_nan == [i \in 1..Len(dirty) |-> Replaced(df, line(dirty[i]))]
         IN  IF dirty # <<>>
             THEN Ok(Utf8(Join(<<"\n">>, lp \o lp_nan)))
             ELSE Ok(Utf8(Join(<<"\n">>, [i \in 1..Len(df.rows) |-> line(df.rows[i])])))

(***************************************************************************)
(* parse_data.  The data is bytes, a text, a DataFrame, a dict (a point), *)
(* a list of such, or anything else.                                       *)
(***************************************************************************)
Bytes(b) == [t |-> "bytes", b |-> b]
Dict(point) == [t |-> "dict", point |-> point]
List(items) == [t |-> "list", items |-> items]
DataFrame(datetime_index, columns, rows) ==
    [t |-> "DataFrame", datetime_index |-> datetime_index, columns |-> columns, rows |-> rows]

\* make_line(...).encode('utf-8')
EncodedLine(r) == IF r.ok THEN Ok(Utf8(r.val)) ELSE r

\* a join that leaves out the elements that raise
join_results_skipping(rs) ==
    LET kept == SelectSeq(rs, LAMBDA r : r.ok)
    IN  Ok(Join(<<10>>, [i \in 1..Len(kept) |-> kept[i].val]))

\* the outcome of the list comprehension and the join: the first element's error
\* if one raises, the joined encodings otherwise
JoinResults(rs) ==
    LET failed == {i \in 1..Len(rs) : ~rs[i].ok}
    IN  IF failed # {} THEN rs[CHOOSE i \in failed : \A j \in failed : i <= j]
        ELSE Ok(Join(<<10>>, [i \in 1..Len(rs) |-> rs[i].val]))

RECURSIVE parse_data(_, _, _, _, _, _)
parse_data(data, measurement, tag_columns, extra_tags, pandas, zone) ==
    IF data.t = "bytes" THEN Ok(data.b)
    ELSE IF data.t = "str" THEN Ok(Utf8(data.s))
    ELSE IF pandas /\ data.t = "DataFrame"
         THEN IF measurement.t = "NoneType" THEN Raise("ValueError")
              ELSE parse_df(data, measurement, tag_columns, extra_tags)
    ELSE IF data.t = "dict"
         THEN EncodedLine(make_line(data.point, measurement, extra_tags, pandas, zone))
    ELSE IF data.t = "list"
         THEN JoinResults([i \in 1..Len(data.items) |->
                  parse_data(data.items[i], measurement, tag_columns, extra_tags, pandas, zone)])
    ELSE Raise("ValueError")

(***************************************************************************)
(* make_df.  A response is a list of statements, each with or without a    *)
(* list of series; a series has a name, maybe tags, columns and rows of    *)
(* values.  A decoded table has an index (timestamps, or row positions),   *)
(* columns and rows of cells.                                              *)
(***************************************************************************)
Series(name, has_tags, tags, columns, values) ==
    [name |-> name, has_tags |-> has_tags, tags |-> tags, columns |-> columns, values |-> values]
Statement(has_series, series) == [has_series |-> has_series, series |-> series]

Table(datetime_index, index, columns, rows) ==
    [t |-> "DataFrame", datetime_index |-> datetime_index, index |-> index,
     columns |-> columns, rows |-> rows]

time_column == <<"t", "i", "m", "e">>

IndexOf(q, x) == CHOOSE i \in 1..Len(q) : q[i] = x

Contains(q, x) == \E i \in 1..Len(q) : q[i] = x

\* q without its element at place i
Without(q, i) == SubSeq(q, 1, i - 1) \o SubSeq(q, i + 1, Len(q))

\* df[k] = v: a constant column, new or in the place of the old one
RECURSIVE WithTags(_, _)
WithTags(df, tags) ==
    IF tags = <<>> THEN df
    ELSE LET k == Head(tags).k
             v == Head(tags).v
             set == IF Contains(df.columns, k)
                    THEN [df EXCEPT !.rows = [r \in 1..Len(df.rows) |->
                              [df.rows[r] EXCEPT ![IndexOf(df.columns, k)] = v]]]
                    ELSE [df EXCEPT !.columns = Append(df.columns, k),
                                    !.rows = [r \in 1..Len(df.rows) |-> Append(df.rows[r], v)]]
         IN  WithTags(set, Tail(tags))

maker(series) ==
    LET n == Len(series.values)
    IN  IF ~Contains(series.columns, time_column)
        THEN Table(FALSE, [r \in 1..n |-> r - 1], series.columns, series.values)
        ELSE LET t == IndexOf(series.columns, time_column)
                 df == Table(TRUE, [r \in 1..n |-> series.values[r][t].i],
                             Without(series.columns, t),
                             [r \in 1..n |-> Without(series.values[r], t)])
             IN  IF series.has_tags THEN WithTags(df, series.tags) ELSE df

series_key_by_name(series) == <<series.name, <<>>>>

\* (series['name'], tuple(series.get('tags', {}).items()))
SeriesKey(series) == <<series.name, IF series.has_tags THEN series.tags ELSE <<>>>>

Ord(c) == Utf8Char(c)[1]

\* a < b for texts
RECURSIVE TextLess(_, _)
TextLess(a, b) ==
    IF b = <<>> THEN FALSE
    ELSE IF a = <<>> THEN TRUE
    ELSE IF Head(a) # Head(b) THEN Ord(Head(a)) < Ord(Head(b))
    ELSE TextLess(Tail(a), Tail(b))

\* a < b for tuples of (key, value) pairs
RECURSIVE ItemsLess(_, _)
ItemsLess(a, b) ==
    IF b = <<>> THEN FALSE
    ELSE IF a = <<>> THEN TRUE
    ELSE IF Head(a).k # Head(b).k THEN TextLess(Head(a).k, Head(b).k)
    ELSE IF Head(a).v # Head(b).v THEN TextLess(Head(a).v.s, Head(b).v.s)
    ELSE ItemsLess(Tail(a), Tail(b))

KeyLess(a, b) == IF a[1] # b[1] THEN TextLess(a[1], b[1]) ELSE ItemsLess(a[2], b[2])

\* sorted(df_list, key=lambda x: x[0]): stable
RECURSIVE Sorted(_)
Sorted(q) ==
    IF q = <<>> THEN <<>>
    ELSE LET rest == Sorted(SubSeq(q, 1, Len(q) - 1))
             x == q[Len(q)]
             before == {i \in 1..Len(rest) : ~KeyLess(x.key, rest[i].key)}
             n == IF before = {} THEN 0 ELSE CHOOSE i \in before : \A j \in before : j <= i
         IN  SubSeq(rest, 1, n) \o <<x>> \o SubSeq(rest, n + 1, Len(rest))

\* the columns of the tables, each once, in order of first appearance
RECURSIVE AllColumns(_, _)
AllColumns(tables, seen) ==
    IF tables = <<>> THEN seen
    ELSE AllColumns(Tail(tables),
                    seen \o SelectSeq(Head(tables).columns, LAMBDA c : ~Contains(seen, c)))

\* pd.concat(tables, axis=0)
concat(tables) ==
    LET columns == AllColumns(tables, <<>>)
        aligned(df) == [r \in 1..Len(df.rows) |-> [c \in 1..Len(columns) |->
                          IF Contains(df.columns, columns[c])
                          THEN df.rows[r][IndexOf(df.columns, columns[c])] ELSE NaN]]
    IN  Table(\A i \in 1..Len(tables) : tables[i].datetime_index,
              Flatten([i \in 1..Len(tables) |-> tables[i].index]),
              columns,
              Flatten([i \in 1..Len(tables) |-> aligned(tables[i])]))

drop_zero_index(df) ==
    IF df.datetime_index /\ \A i \in 1..Len(df.index) : df.index[i] = 0
    THEN [df EXCEPT !.datetime_index = FALSE, !.index = [r \in 1..Len(df.rows) |-> r - 1]]
    ELSE df

\* df[col].astype(CategoricalDtype(categories)): a value outside the categories
\* becomes NaN
AsCategory(df, col, categories) ==
    LET c == IndexOf(df.columns, col)
    IN  [df EXCEPT !.rows = [r \in 1..Len(df.rows) |->
            [df.rows[r] EXCEPT ![c] = IF df.rows[r][c] \in categories THEN @ ELSE NaN]]]

RECURSIVE Categorised(_, _)
Categorised(df, cache) ==
    IF cache = <<>> THEN df
    ELSE Categorised(IF Contains(df.columns, Head(cache).k)
                     THEN AsCategory(df, Head(cache).k, Head(cache).v) ELSE df,
                     Tail(cache))

\* the keys of the sorted list, each once, in order
RECURSIVE GroupKeys(_, _)
GroupKeys(q, seen) ==
    IF q = <<>> THEN seen
    ELSE GroupKeys(Tail(q), IF Contains(seen, Head(q).key) THEN seen ELSE Append(seen, Head(q).key))

make_df(resp, tag_cache) ==
    LET all == Flatten([i \in 1..Len(resp.results) |->
                   IF resp.results[i].has_series THEN resp.results[i].series ELSE <<>>])
        df_list == [i \in 1..Len(all) |-> [key |-> SeriesKey(all[i]), df |-> maker(all[i])]]
        sorted == Sorted(df_list)
        keys == GroupKeys(sorted, <<>>)
        group(k) == LET members == SelectSeq(sorted, LAMBDA x : x.key = k)
                    IN  [i \in 1..Len(members) |-> members[i].df]
        post(k) == LET df == drop_zero_index(concat(group(k)))
                   IN  IF tag_cache = <<>> \/ k[1] \notin Keys(tag_cache) THEN df
                       ELSE Categorised(df, Get(tag_cache, k[1]))
        dfs == [i \in 1..Len(keys) |-> Item(keys[i], post(keys[i]))]
    IN  IF Len(dfs) = 1 THEN Ok(dfs[1].v) ELSE Ok([t |-> "dict", items |-> dfs])

(***************************************************************************)
(* The inputs the calls are made with.                                     *)
(***************************************************************************)
EscapeAlphabet == {"a", "\\", ",", " ", "=", "\"", "\n"}

RECURSIVE TextsUpTo(_, _)
TextsUpTo(alphabet, n) ==
    IF n = 0 THEN {<<>>}
    ELSE LET shorter == TextsUpTo(alphabet, n - 1)
         IN  shorter \cup {Append(s, c) : s \in shorter, c \in alphabet}

Profiles == {"key_escape", "tag_escape", "str_escape", "measurement_escape"}

\* UTC, and a zone five hours west of UTC whose daylight-saving time (four hours
\* west) applies to the wall-clock readings from dstFrom on
LocalZones ==
    { [timezone |-> 0, altzone |-> 0, dst |-> FALSE, dstFrom |-> 0],
      [timezone |-> 18000, altzone |-> 14400, dst |-> TRUE, dstFrom |-> 100] }

\* the mappings of at most n items with keys from keys and values from values
RECURSIVE Mappings(_, _, _)
Mappings(keys, values, n) ==
    IF n = 0 THEN {<<>>}
    ELSE LET shorter == Mappings(keys, values, n - 1)
         IN  shorter \cup {Append(m, Item(k, v)) :
                             m \in shorter, k \in keys, v \in values}

DistinctKeys(m) == \A i, j \in 1..Len(m) : m[i].k = m[j].k => i = j

Dicts(keys, values, n) == {m \in Mappings(keys, values, n) : DistinctKeys(m)}

Point(has, measurement, tags, fields, time) ==
    [has |-> has, measurement |-> measurement, tags |-> tags, fields |-> fields, time |-> time]

cpu == <<"c", "p", "u">>

TagValues == {VStr(<<>>), VStr(<<"x">>), VStr(<<"\n">>), None}
TagDicts == Dicts({<<"a">>, <<"b">>}, TagValues, MaxTags)
ExtraDicts == Dicts({<<"b">>, <<"c">>}, {VStr(<<"z">>), None}, 1)

FieldValues ==
    {VBool(TRUE), VBool(FALSE), VInt(3), VStr(<<"q", "\"", " ">>), None, VFloat(3)}
FieldDicts == Dicts({<<"v">>, <<"c", " ">>}, FieldValues, MaxFields)

Times ==
    { Aware(0, 0, 0), Aware(1, 500000, 0), Aware(-1, 500000, 0), Aware(-2, 0, 0),
      Aware(3600, 0, 3600), Naive(1, 250000), Naive(200, 0), Naive(-1, 500000),
      IsoText(Aware(2, 0, 0)), IsoText(Naive(2, 0)), VStr(<<"x">>) }

\* the arguments make_line is called with: points that vary in their tags, points
\* that vary in their fields and measurement, points that vary in their time
TagArgs ==
    {[point |-> Point(h \cup {"measurement", "fields"}, VStr(cpu), t,
                      <<Item(<<"v">>, VInt(1))>>, None),
      measurement |-> None, extra_tags |-> e] :
        h \in {{}, {"tags"}}, t \in TagDicts, e \in ExtraDicts}

FieldArgs ==
    {[point |-> Point(hm \cup hf \cup ht \cup {"tags"},
                      VStr(<<"c", " ", "u">>), <<Item(<<"h">>, VStr(<<"a">>))>>, f,
                      Aware(1, 0, 0)),
      measurement |-> m, extra_tags |-> <<>>] :
        hm \in {{}, {"measurement"}}, hf \in {{}, {"fields"}}, ht \in {{}, {"time"}},
        f \in FieldDicts, m \in {None, VStr(<<"m">>)}}

TimeArgs ==
    {[point |-> Point({"measurement", "tags", "fields", "time"}, VStr(cpu),
                      <<Item(<<"h", "o", "s", "t">>, VStr(<<"a">>))>>,
                      <<Item(<<"v", "a", "l", "u", "e">>, VInt(1)),
                        Item(<<"i", "d", "l", "e">>, VBool(TRUE))>>, t),
      measurement |-> None, extra_tags |-> <<>>] : t \in Times}

\* a point keeps no value under a key it does not carry
Canonical(a) ==
    /\ "tags" \notin a.point.has => a.point.tags = <<>>
    /\ "fields" \notin a.point.has => a.point.fields = <<>>

MakeLineArgs == {a \in TagArgs \cup FieldArgs \cup TimeArgs : Canonical(a)}

\* the sequences of at most n elements of a set
RECURSIVE SeqsUpTo(_, _)
SeqsUpTo(elements, n) ==
    IF n = 0 THEN {<<>>}
    ELSE LET shorter == SeqsUpTo(elements, n - 1)
         IN  shorter \cup {Append(q, e) : q \in shorter, e \in elements}

\* the values a cell of each dtype holds
Cells(dtype) ==
    CASE dtype = "int64" -> {VInt(7)}
      [] dtype = "float64" -> {VFloat(3), NaN}
      [] dtype = "bool" -> {VBool(TRUE)}
      [] dtype = "object" -> {VStr(<<"x">>), None, NaN}
      [] dtype = "category" -> {VStr(<<"y">>), NaN}

Schemas ==
    { <<Column(<<"a">>, "int64"), Column(<<"b">>, "float64")>>,
      <<Column(<<"a">>, "object"), Column(<<"b">>, "float64")>>,
      <<Column(<<"a">>, "category"), Column(<<"b">>, "object")>>,
      <<Column(<<"a", " ", "b">>, "object"), Column(<<"b">>, "int64")>>,
      <<Column(<<"a", " ", "b">>, "category"), Column(<<"b">>, "bool")>> }

\* the rows of a table: row i carries the index value i seconds and i nanoseconds
RowCells(columns) ==
    {c \in [1..Len(columns) -> UNION {Cells(columns[i].dtype) : i \in 1..Len(columns)}] :
        \A i \in 1..Len(columns) : c[i] \in Cells(columns[i].dtype)}

Indexed(cellrows) == [i \in 1..Len(cellrows) |-> Row(Nanos(i, i), cellrows[i])]

DataFrames ==
    {DataFrame(TRUE, columns, Indexed(cellrows)) :
        <<columns, cellrows>> \in
            UNION {{<<c, r>> : r \in SeqsUpTo(RowCells(c), MaxRows) \ {<<>>}} : c \in Schemas}}
    \cup {DataFrame(FALSE, <<Column(<<"a">>, "int64")>>, <<Row(Nanos(0, 0), <<VInt(7)>>)>>)}

TagColumnArgs == {{}, {<<"a">>}, {<<"a", " ", "b">>}}

DfExtraTags == {<<>>, <<Item(<<"l">>, VStr(<<"z", " ">>))>>}

\* the elements parse_data meets in a list
GoodPoint ==
    Point({"measurement", "fields"}, VStr(cpu), <<>>, <<Item(<<"v">>, VInt(1))>>, None)
NamelessPoint ==
    Point({"fields", "time"}, None, <<>>, <<Item(<<"v">>, VBool(FALSE))>>, Aware(1, 0, 0))

SmallFrame ==
    DataFrame(TRUE, <<Column(<<"a">>, "int64")>>, <<Row(Nanos(0, 5), <<VInt(7)>>)>>)

Leaves(pandas) ==
    { Bytes(<<120, 255>>), VStr(<<"U+00E9", " ", "v", "=", "1">>),
      Dict(GoodPoint), Dict(NamelessPoint), VInt(5) }
        \cup (IF pandas THEN {SmallFrame} ELSE {})

Nested == {List(q) : q \in SeqsUpTo({Bytes(<<120, 255>>), Dict(NamelessPoint), VInt(5)}, 2)}

ParseDataArgs(pandas) ==
    Leaves(pandas) \cup {List(q) : q \in SeqsUpTo(Leaves(pandas) \cup Nested, MaxItems)}

mem == <<"m", "e", "m">>

value_column == <<"v", "a", "l", "u", "e">>

SeriesTags ==
    { <<Item(<<"h">>, VStr(<<"a">>)), Item(<<"r">>, VStr(<<"x">>))>>,
      <<Item(<<"r">>, VStr(<<"x">>)), Item(<<"h">>, VStr(<<"a">>))>> }

\* rows of (time, value)
SeriesRows ==
    { << <<VInt(1), VInt(10)>> >>,
      << <<VInt(3), VInt(30)>>, <<VInt(2), VInt(20)>> >>,
      << <<VInt(0), VInt(5)>> >> }

SeriesPool ==
    {Series(n, TRUE, t, <<time_column, value_column>>, r) : n \in {cpu, mem}, t \in SeriesTags, r \in SeriesRows}
    \cup {Series(n, FALSE, <<>>, <<time_column, value_column>>, r) : n \in {cpu, mem}, r \in SeriesRows}
    \cup {Series(cpu, FALSE, <<>>, <<value_column>>, << <<VInt(7)>> >>)}

\* the series of a response in one statement, or a statement each after a
\* statement without series
Responses ==
    {[results |-> <<Statement(TRUE, q)>>] : q \in SeqsUpTo(SeriesPool, MaxChunks)}
    \cup {[results |-> <<Statement(FALSE, <<>>)>> \o [i \in 1..Len(q) |-> Statement(TRUE, <<q[i]>>)]] :
            q \in SeqsUpTo(SeriesPool, MaxChunks)}

TagCaches ==
    { <<>>, <<Item(cpu, <<Item(<<"h">>, {VStr(<<"a">>)}), Item(<<"r">>, {VStr(<<"y">>)})>>)>> }

(***************************************************************************)
(* The state machine: the module is imported, then its functions are       *)
(* called one at a time.                                                   *)
(***************************************************************************)
NoCall == [fn |-> "none"]

Init ==
    /\ pd \in BOOLEAN
    /\ tz \in LocalZones
    /\ pc = "idle"
    /\ call = NoCall
    /\ ret = NoCall

Call_escape ==
    /\ pc = "idle"
    /\ \E s \in TextsUpTo(EscapeAlphabet, MaxLen), p \in Profiles :
          /\ call' = [fn |-> "escape", string |-> VStr(s), escape_pattern |-> p]
          /\ ret' = Ok(escape(VStr(s), Pattern(p)))
    /\ pc' = "done"
    /\ UNCHANGED <<pd, tz>>

Call_make_line ==
    /\ pc = "idle"
    /\ \E a \in MakeLineArgs :
          /\ call' = [fn |-> "make_line", point |-> a.point,
                      measurement |-> a.measurement, extra_tags |-> a.extra_tags]
          /\ ret' = make_line(a.point, a.measurement, a.extra_tags, pd, tz)
    /\ pc' = "done"
    /\ UNCHANGED <<pd, tz>>

Call_parse_data ==
    /\ pc = "idle"
    /\ \E d \in ParseDataArgs(pd), m \in {None, VStr(<<"m">>)} :
          /\ call' = [fn |-> "parse_data", data |-> d, measurement |-> m,
                      tag_columns |-> {}, extra_tags |-> <<>>]
          /\ ret' = parse_data(d, m, {}, <<>>, pd, tz)
    /\ pc' = "done"
    /\ UNCHANGED <<pd, tz>>

\* a DataFrame exists only where pandas does
Call_parse_df ==
    /\ pc = "idle"
    /\ pd
    /\ \E d \in DataFrames, c \in TagColumnArgs, e \in DfExtraTags :
          /\ call' = [fn |-> "parse_df", df |-> d, measurement |-> VStr(<<"m">>),
                      tag_columns |-> c, extra_tags |-> e]
          /\ ret' = parse_df(d, VStr(<<"m">>), c, e)
    /\ pc' = "done"
    /\ UNCHANGED <<pd, tz>>

Call_make_df ==
    /\ pc = "idle"
    /\ pd
    /\ \E r \in Responses, c \in TagCaches :
          /\ call' = [fn |-> "make_df", resp |-> r, tag_cache |-> c]
          /\ ret' = make_df(r, c)
    /\ pc' = "done"
    /\ UNCHANGED <<pd, tz>>

Return ==
    /\ pc = "done"
    /\ pc' = "idle"
    /\ call' = NoCall
    /\ ret' = NoCall
    /\ UNCHANGED <<pd, tz>>

Next ==
    \/ Call_escape
    \/ Call_make_line
    \/ Call_parse_data
    \/ Call_parse_df
    \/ Call_make_df
    \/ Return

Spec == Init /\ [][Next]_vars

SpecEscape == Init /\ [][Call_escape \/ Return]_vars

SpecLine == Init /\ [][Call_make_line \/ Return]_vars

SpecData == Init /\ [][Call_parse_data \/ Return]_vars

SpecFrame == Init /\ [][Call_parse_df \/ Return]_vars

SpecDecode == Init /\ [][Call_make_df \/ Return]_vars

(***************************************************************************)
(* Reading a line back: its segments, found from the text alone.           *)
(***************************************************************************)
\* the first place from i on where c stands unescaped, 0 if there is none
RECURSIVE FirstBare(_, _, _)
FirstBare(line, c, i) ==
    IF i > Len(line) THEN 0
    ELSE IF line[i] = "\\" THEN FirstBare(line, c, i + 2)
    ELSE IF line[i] = c THEN i
    ELSE FirstBare(line, c, i + 1)

LastIndex(line, c) ==
    LET places == {i \in 1..Len(line) : line[i] = c}
    IN  IF places = {} THEN 0 ELSE CHOOSE i \in places : \A j \in places : j <= i

\* measurement and tags: up to the first unescaped space
HeadSegment(line) == SubSeq(line, 1, FirstBare(line, " ", 1) - 1)

\* the tags: what follows the first unescaped comma of the head
TagSegment(line) ==
    LET h == HeadSegment(line)
        c == FirstBare(h, ",", 1)
    IN  IF c = 0 THEN <<>> ELSE SubSeq(h, c + 1, Len(h))

\* the fields: between the first unescaped space and the last space
FieldSegment(line) == SubSeq(line, FirstBare(line, " ", 1) + 1, LastIndex(line, " ") - 1)

\* the timestamp: what follows the last space
TimestampSegment(line) == SubSeq(line, LastIndex(line, " ") + 1, Len(line))

MadeLine == pc = "done" /\ call.fn = "make_line" /\ ret.ok

(***************************************************************************)
(* C1.  Field rendering by value type.                                     *)
(***************************************************************************)
\* the token the claim gives a field, booleans spelt yes / no
RenderedField(k, v, yes, no) ==
    LET key == translate(k, key_escape)
    IN  CASE v.t = "bool" -> <<key \o <<"=">> \o (IF v.b THEN yes ELSE no)>>
          [] v.t = "int" -> <<key \o <<"=">> \o IntStr(v.i) \o <<"i">> >>
          [] v.t = "str" -> <<key \o <<"=", "\"">> \o translate(v.s, str_escape) \o <<"\"">> >>
          [] v.t = "NoneType" -> <<>>
          [] v.t = "float" -> <<key \o <<"=">> \o PyStr(v)>>

RenderedFields(fields, yes, no) ==
    Join(<<",">>, Flatten([i \in 1..Len(fields) |->
                              RenderedField(fields[i].k, fields[i].v, yes, no)]))

C2_NoTimeNoTrailingSeparator ==
    (MadeLine /\ "time" \notin call.point.has) =>
        ret.val = HeadSegment(ret.val) \o <<" ">>
                    \o RenderedFields(call.point.fields, <<"T", "r", "u", "e">>,
                                      <<"F", "a", "l", "s", "e">>)

(***************************************************************************)
(* C3, C4.  The tag segment.                                               *)
(***************************************************************************)
IsBlank(v) == v.t = "NoneType" \/ (v.t = "str" /\ v.s = <<>>)

\* key=value for every item of the mapping that is not blank
RenderedTags(items) ==
    Join(<<",">>, Flatten([i \in 1..Len(items) |->
            IF IsBlank(items[i].v) THEN <<>>
            ELSE <<translate(items[i].k, key_escape) \o <<"=">>
                     \o translate(PyStr(items[i].v), tag_escape)>>]))

\* C3: a tag whose value is the empty string or null is left out of the line
\* (nothing stands in for it), every other tag of the point is emitted as
\* key=value, and with no tag left the tag segment and its comma are left out.
C3_BlankTagsOmitted ==
    (MadeLine /\ "tags" \in call.point.has /\ call.extra_tags = <<>>
        /\ \A i \in 1..Len(call.point.tags) : call.point.tags[i].v # VStr(<<"\n">>)) =>
        /\ TagSegment(ret.val) = RenderedTags(call.point.tags)
        /\ (RenderedTags(call.point.tags) = <<>> => FirstBare(HeadSegment(ret.val), ",", 1) = 0)

\* the point's own tags: none when it carries no 'tags'
OwnTags(point) == IF "tags" \in point.has THEN point.tags ELSE <<>>

AllText(items) == \A i \in 1..Len(items) : items[i].v.t = "str" /\ items[i].v.s # <<"\n">>

\* C4: the tag segment lists exactly the non-blank entries of the point's tags
\* merged with extra_tags (extra_tags winning on a shared key), in the merged
\* mapping's insertion order, also for a point that carries no tags of its own.
\* Stated for text values, so that null tags (C3) play no part.
C4_TagsMergedWithExtra ==
    (MadeLine /\ AllText(OwnTags(call.point)) /\ AllText(call.extra_tags)) =>
        TagSegment(ret.val) = RenderedTags(merge(OwnTags(call.point), call.extra_tags))

(***************************************************************************)
(* C8.  The timestamp.                                                     *)
(***************************************************************************)
\* the nanoseconds from the epoch to the instant a time value names, a naive
\* datetime read as UTC
EpochNanos(time) ==
    LET d == IF time.t = "str" THEN time.iso ELSE time
    IN  Nanos(d.sec - (IF d.aware THEN d.off ELSE 0), d.micro * 1000)

\* C8: the timestamp of the line is the exact number of nanoseconds between the
\* epoch and the point's 'time', whatever the local time zone, also before the
\* epoch and with a sub-second part.
C8_TimestampExactNanos ==
    (MadeLine /\ "time" \in call.point.has) =>
        TimestampSegment(ret.val) = NanosStr(EpochNanos(call.point.time))

(***************************************************************************)
(* C5.  escape.                                                            *)
(***************************************************************************)
\* the reserved characters of each profile
Reserved(profile) ==
    CASE profile = "measurement_escape" -> {"\\", ",", " "}
      [] profile \in {"key_escape", "tag_escape"} -> {"\\", ",", " ", "="}
      [] profile = "str_escape" -> {"\\", "\""}

\* out holds no newline, every reserved character in it follows an escaping
\* backslash, and no backslash escapes anything else
RECURSIVE WellEscaped(_, _, _)
WellEscaped(out, reserved, i) ==
    IF i > Len(out) THEN TRUE
    ELSE IF out[i] = "\\"
         THEN i + 1 <= Len(out) /\ out[i + 1] \in reserved /\ WellEscaped(out, reserved, i + 2)
    ELSE out[i] \notin reserved \cup {"\n"} /\ WellEscaped(out, reserved, i + 1)

\* out with its escaping backslashes taken away
RECURSIVE Unescaped(_, _)
Unescaped(out, i) ==
    IF i > Len(out) THEN <<>>
    ELSE IF out[i] = "\\" /\ i + 1 <= Len(out) THEN <<out[i + 1]>> \o Unescaped(out, i + 2)
    ELSE <<out[i]>> \o Unescaped(out, i + 1)

NotNewline(c) == c # "\n"

\* C5: for every text and profile, escape gives the text with its newlines
\* removed and each reserved character of the profile behind a backslash, and
\* nothing else changed.
C5_EscapeProfile ==
    (pc = "done" /\ call.fn = "escape") =>
        /\ WellEscaped(ret.val, Reserved(call.escape_pattern), 1)
        /\ Unescaped(ret.val, 1) = SelectSeq(call.string.s, NotNewline)

C5_Witness ==
    /\ pc = "done" /\ call.fn = "escape"
    /\ call.escape_pattern = "measurement_escape"
    /\ call.string.s = <<"=", ",">>
    /\ ret.val = <<"=", "\\", ",">>

(***************************************************************************)
(* C9.  parse_data over a list.                                            *)
(***************************************************************************)
\* no measurement can be resolved for the point
Unresolvable(point, measurement) ==
    "measurement" \notin point.has /\ measurement.t = "NoneType"

\* some element, at any depth, cannot be encoded
RECURSIVE CannotEncode(_, _)
CannotEncode(e, measurement) ==
    CASE e.t \in {"bytes", "str"} -> FALSE
      [] e.t = "dict" -> Unresolvable(e.point, measurement)
      [] e.t = "DataFrame" -> measurement.t = "NoneType"
      [] e.t = "list" -> \E i \in 1..Len(e.items) : CannotEncode(e.items[i], measurement)
      [] OTHER -> TRUE

\* the encoding of an element every part of which can be encoded
RECURSIVE Encoding(_, _)
Encoding(e, measurement) ==
    CASE e.t = "bytes" -> e.b
      [] e.t = "str" -> Utf8(e.s)
      [] e.t = "dict" -> Utf8(make_line(e.point, measurement, <<>>, pd, tz).val)
      [] e.t = "DataFrame" -> parse_df(e, measurement, {}, <<>>).val
      [] e.t = "list" ->
            Join(<<10>>, [i \in 1..Len(e.items) |-> Encoding(e.items[i], measurement)])

\* C9: parse_data returns the encodings of the elements of a (nested) list in
\* input order, joined by single newlines, and if any element cannot be encoded
\* the call raises and returns nothing.
C9_OrderedAllOrNothing ==
    (pc = "done" /\ call.fn = "parse_data") =>
        IF CannotEncode(call.data, call.measurement)
        THEN ~ret.ok /\ "val" \notin DOMAIN ret
        ELSE ret.ok /\ ret.val = Encoding(call.data, call.measurement)

C9_Witness ==
    /\ pc = "done" /\ call.fn = "parse_data"
    /\ call.data = List(<<List(<<Bytes(<<120, 255>>), Bytes(<<120, 255>>)>>),
                          VStr(<<"U+00E9", " ", "v", "=", "1">>)>>)
    /\ ret = Ok(<<120, 255, 10, 120, 255, 10, 195, 169, 32, 118, 61, 49>>)

(***************************************************************************)
(* C6, C10.  parse_df.                                                     *)
(***************************************************************************)
ParsedFrame == pc = "done" /\ call.fn = "parse_df" /\ ret.ok

PlainNames(df) ==
    \A i \in 1..Len(df.columns) : \A j \in 1..Len(df.columns[i].name) :
        df.columns[i].name[j] \notin {" ", ",", "=", "\\"}

\* a line from its parts
LineOf(measurement, tags, fields, index) ==
    measurement \o (IF tags # <<>> THEN <<",">> ELSE <<>>) \o Join(<<",">>, tags)
        \o <<" ">> \o Join(<<",">>, fields) \o <<" ">> \o NanosStr(index)

\* the line of a row with the tokens of its non-null columns only
LineWithoutNulls(df, measurement, tag_columns, extra_tags, row) ==
    LET cols == [i \in 1..Len(df.columns) |-> i]
        tagcols == SelectSeq(cols, LAMBDA i : ColumnRole(df, i, tag_columns) = "tag"
                                                /\ ~IsNull(row.cells[i]))
        fieldcols == SelectSeq(cols, LAMBDA i : ColumnRole(df, i, tag_columns) # "tag"
                                                  /\ ~IsNull(row.cells[i]))
    IN  LineOf(PyStr(measurement),
               [j \in 1..Len(extra_tags) |-> ExtraTagToken(extra_tags[j])]
                   \o [j \in 1..Len(tagcols) |-> ColumnToken(df, tagcols[j], tag_columns, row)],
               [j \in 1..Len(fieldcols) |-> ColumnToken(df, fieldcols[j], tag_columns, row)],
               row.index)

CountOf(b, x) == Cardinality({i \in 1..Len(b) : b[i] = x})

\* C6: a table with N rows without nulls and M rows with a null encodes to N + M
\* lines joined by newlines; the line of a row with nulls carries exactly the
\* tokens of its non-null columns, the null columns absent, no delimiter left
\* dangling.  (Stated for plain column names; the rows without nulls come first.)
C6_NullColumnsAbsent ==
    (ParsedFrame /\ PlainNames(call.df) /\ \E i \in 1..Len(call.df.rows) : RowIsNull(call.df.rows[i])) =>
        LET line(row) == LineWithoutNulls(call.df, call.measurement, call.tag_columns,
                                          call.extra_tags, row)
            clean == SelectSeq(call.df.rows, IsCleanRow)
            dirty == SelectSeq(call.df.rows, IsNullRow)
        IN  /\ CountOf(ret.val, 10) + 1 = Len(call.df.rows)
            /\ ret.val = Utf8(Join(<<"\n">>, [i \in 1..Len(clean) |-> line(clean[i])]
                                              \o [i \in 1..Len(dirty) |-> line(dirty[i])]))

\* the line the claim gives a row: the columns of the effective tag-column set as
\* tags, key and value escaped under the tag profile, the others as fields
ClaimedLine(df, measurement, tag_columns, extra_tags, row) ==
    LET cols == [i \in 1..Len(df.columns) |-> i]
        effective == tag_columns \cup {df.columns[i].name : i \in
                         {j \in 1..Len(df.columns) : df.columns[j].dtype = "category"}}
        key(i) == translate(df.columns[i].name, key_escape)
        tagcols == SelectSeq(cols, LAMBDA i : df.columns[i].name \in effective)
        fieldcols == SelectSeq(cols, LAMBDA i : df.columns[i].name \notin effective)
        field(i) ==
            IF df.columns[i].dtype = "int64" THEN key(i) \o <<"=">> \o PyStr(row.cells[i]) \o <<"i">>
            ELSE IF df.columns[i].dtype \in {"float64", "bool"}
                 THEN key(i) \o <<"=">> \o PyStr(row.cells[i])
            ELSE key(i) \o <<"=", "\"">> \o PyStr(row.cells[i]) \o <<"\"">>
    IN  LineOf(PyStr(measurement),
               [j \in 1..Len(extra_tags) |-> ExtraTagToken(extra_tags[j])]
                   \o [j \in 1..Len(tagcols) |->
                          key(tagcols[j]) \o <<"=">>
                              \o translate(PyStr(row.cells[tagcols[j]]), tag_escape)],
               [j \in 1..Len(fieldcols) |-> field(fieldcols[j])],
               row.index)

\* C10: every column, also one whose name holds a reserved character, is rendered
\* as a tag exactly when it is in the effective tag-column set (tag_columns and
\* the categorical columns), and as a field of its dtype's shape otherwise.
\* (Stated for tables without nulls.)
C10_TagColumnsAreTags ==
    (ParsedFrame /\ \A i \in 1..Len(call.df.rows) : ~RowIsNull(call.df.rows[i])) =>
        ret.val = Utf8(Join(<<"\n">>, [i \in 1..Len(call.df.rows) |->
                      ClaimedLine(call.df, call.measurement, call.tag_columns,
                                  call.extra_tags, call.df.rows[i])]))

(***************************************************************************)
(* C7.  make_df merges the chunks of a series.                             *)
(***************************************************************************)
Decoded == pc = "done" /\ call.fn = "make_df" /\ ret.ok

\* the series of the response, in arrival order
Chunks(resp) ==
    Flatten([i \in 1..Len(resp.results) |->
        IF resp.results[i].has_series THEN resp.results[i].series ELSE <<>>])

\* the cells of the 'value' column, row by row
ChunkValues(series) ==
    [r \in 1..Len(series.values) |-> series.values[r][IndexOf(series.columns, value_column)]]
TableValues(df) ==
    [r \in 1..Len(df.rows) |-> df.rows[r][IndexOf(df.columns, value_column)]]

\* identity with the tags as listed, and with the tags in no order
ListedIdentity(name, tags) == <<name, tags>>
UnorderedIdentity(name, tags) == <<name, {tags[i] : i \in 1..Len(tags)}>>

\* the result holds one table for each identity of the response, its rows those
\* of the identity's chunks in arrival order, each chunk's rows in their order
MergedBy(Identity(_, _)) ==
    LET all == Chunks(call.resp)
        id(series) == Identity(series.name, IF series.has_tags THEN series.tags ELSE <<>>)
        ids == {id(all[i]) : i \in 1..Len(all)}
        rows(x) == Flatten([i \in 1..Len(all) |->
                      IF id(all[i]) = x THEN ChunkValues(all[i]) ELSE <<>>])
    IN  IF ret.val.t = "DataFrame"
        THEN Cardinality(ids) = 1 /\ \A x \in ids : TableValues(ret.val) = rows(x)
        ELSE /\ Len(ret.val.items) = Cardinality(ids)
             /\ \A x \in ids : \E j \in 1..Len(ret.val.items) :
                   /\ Identity(ret.val.items[j].k[1], ret.val.items[j].k[2]) = x
                   /\ TableValues(ret.val.items[j].v) = rows(x)

=============================================================================
